---- MODULE Spec2Model ----
(***************************************************************************)
(* Model of the cap-worker challenge/token store (src/src/index.ts):       *)
(* the CapStorageDurableObject (storage transactions and the cleanup       *)
(* alarm) and the fetch handler's /api/challenge, /api/redeem and          *)
(* /api/validate routes, run by concurrent stateless requests.             *)
(*                                                                         *)
(* Time is counted in abstract clock units.  Storage transactions are      *)
(* atomic and roll back when their closure throws (Durable Object          *)
(* storage.transaction semantics).  alarm() awaits storage calls only, so  *)
(* the object's input gate delivers no other event while it runs: it is    *)
(* one step.  Challenge ids and tokens come from the external Cap library  *)
(* as fresh random values.                                                 *)
(***************************************************************************)
EXTENDS Integers, Sequences, FiniteSets, Bags, TLC

\* ---------------------------------------------------------------- bounds
MaxNow == 2     \* the clock runs over 0..MaxNow
NReq == 2       \* redeem requests in flight at once
NIds == 1       \* challenge ids the Cap library can generate
NTok == 2       \* tokens the Cap library can generate

\* ------------------------------------------------------------- constants
ERR_NOT_FOUND == "NOT_FOUND"
ERR_EXPIRED == "EXPIRED"
\* 60 * 1000 ms, in clock units
CLEANUP_INTERVAL_MS == 1
\* lifetime the Cap library gives a challenge (createChallenge), in clock units
ChallengeTTL == 1
\* lifetime the Cap library gives a token (redeemChallenge), in clock units
TokenTTL == 1

Ids == 1..NIds
Toks == 1..NTok

VARIABLES
    now,          \* Date.now()
    challenges,   \* storage keys "challenge:<id>"  : id   -> Challenge
    tokens,       \* storage keys "token:<hash>"    : hash -> StoredToken
    alarmAt,      \* the pending alarm of the storage object, or NoAlarm
    req,          \* the bag of in-flight fetch() requests, each at an await
    last,         \* the response a handler has just produced, until it is sent
    issued,       \* history: id -> expires of every challenge ever stored
    minted,       \* hash -> expires of every token the verifier returned
    redeemed,     \* history: id -> hashes of the tokens a committed finalizeRedeem stored for it
    consumeOk,    \* history: hash -> number of successful consuming validates
    gc            \* alarm() taken await by await: where it is, and the serial run it is compared with

vars == <<now, challenges, tokens, alarmAt, req, last, issued, minted, redeemed, consumeOk, gc>>

NoAlarm == -1

\* ------------------------------------------------------------ pure helpers
\* Map (storage) helpers: a storage namespace is a function with a dynamic domain.
Has(m, k) == k \in DOMAIN m
Put(m, k, v) == [x \in (DOMAIN m) \cup {k} |-> IF x = k THEN v ELSE m[x]]
Delete(m, k) == [x \in (DOMAIN m) \ {k} |-> m[x]]
EmptyMap == [x \in {} |-> 0]

\* SHA-256 of the secret, as hex: an injective map into a range disjoint from the secrets
Digest(secret) == 100 + secret

\* A token string is modelled by its segments between ":" (token.split(":"));
\* segment 0 is the empty string.
TokenString(t) == <<t, t>>

hashTokenThrows(token) ==
    \/ Len(token) < 2
    \/ token[1] = 0
    \/ token[2] = 0

hashToken(token) == <<token[1], Digest(token[2])>>

\* Mutant: no record ever counts as expired.
NeverExpired(expires, t) == FALSE

\* Mutant: a record counts as expired from the instant of its expiry on.
ExpiredAtBoundary(expires, t) == expires <= t

\* `record.expires < now`
IsExpired(expires, t) == expires < t

\* ---------------------------------------------------- storage transactions
\* Where a storage fault (an error that is neither NOT_FOUND nor EXPIRED) may
\* hit a transaction closure: never, or at one of its storage calls.
FinalizeFaults == {"none", "get", "delete", "put"}
ValidateFaults == {"none", "get", "delete"}

Thrown(ch, tk, err) == [ch |-> ch, tk |-> tk, err |-> err]

\* Mutant: the closure does not look whether the challenge is still stored.
FinalizeRedeemBlind(ch, tk, token, tokenHash, tokenData, t, fault) ==
    IF fault = "get" THEN Thrown(ch, tk, "FAULT")
    ELSE IF Has(ch, token) /\ IsExpired(ch[token].expires, t)
        THEN Thrown(Delete(ch, token), tk, ERR_EXPIRED)
    ELSE IF fault = "delete" THEN Thrown(ch, tk, "FAULT")
    ELSE IF fault = "put" THEN Thrown(Delete(ch, token), tk, "FAULT")
    ELSE Thrown(Delete(ch, token), Put(tk, tokenHash, tokenData), "OK")

\* Mutant: the closure stores the token and leaves the challenge in place.
FinalizeRedeemKeepsChallenge(ch, tk, token, tokenHash, tokenData, t, fault) ==
    IF fault = "get" THEN Thrown(ch, tk, "FAULT")
    ELSE IF ~Has(ch, token) THEN Thrown(ch, tk, ERR_NOT_FOUND)
    ELSE IF IsExpired(ch[token].expires, t)
        THEN Thrown(Delete(ch, token), tk, ERR_EXPIRED)
    ELSE IF fault \in {"delete", "put"} THEN Thrown(ch, tk, "FAULT")
    ELSE Thrown(ch, Put(tk, tokenHash, tokenData), "OK")

\* Mutant: a committing closure also drops every other expired challenge.
FinalizeRedeemSweeps(ch, tk, token, tokenHash, tokenData, t, fault) ==
    IF fault = "get" THEN Thrown(ch, tk, "FAULT")
    ELSE IF ~Has(ch, token) THEN Thrown(ch, tk, ERR_NOT_FOUND)
    ELSE IF IsExpired(ch[token].expires, t)
        THEN Thrown(Delete(ch, token), tk, ERR_EXPIRED)
    ELSE IF fault = "delete" THEN Thrown(ch, tk, "FAULT")
    ELSE IF fault = "put" THEN Thrown(Delete(ch, token), tk, "FAULT")
    ELSE Thrown([x \in {k \in DOMAIN ch : ~IsExpired(ch[k].expires, t)} \ {token} |-> ch[x]],
                Put(tk, tokenHash, tokenData), "OK")

\* The closure of finalizeRedeem, run on the transaction's view <<ch, tk>> of the
\* store at time t: the writes it buffered and what it threw ("OK": it returned).
FinalizeRedeemClosure(ch, tk, token, tokenHash, tokenData, t, fault) ==
    IF fault = "get" THEN Thrown(ch, tk, "FAULT")
    ELSE IF ~Has(ch, token) THEN Thrown(ch, tk, ERR_NOT_FOUND)
    ELSE IF IsExpired(ch[token].expires, t)
        THEN Thrown(Delete(ch, token), tk, ERR_EXPIRED)
    ELSE IF fault = "delete" THEN Thrown(ch, tk, "FAULT")
    ELSE IF fault = "put" THEN Thrown(Delete(ch, token), tk, "FAULT")
    ELSE Thrown(Delete(ch, token), Put(tk, tokenHash, tokenData), "OK")

\* Mutant: the closure never deletes a valid token.
ValidateNeverConsumes(ch, tk, tokenHash, keepToken, t, fault) ==
    IF fault = "get" THEN Thrown(ch, tk, "FAULT")
    ELSE IF ~Has(tk, tokenHash) THEN Thrown(ch, tk, ERR_NOT_FOUND)
    ELSE IF IsExpired(tk[tokenHash].expires, t)
        THEN Thrown(ch, Delete(tk, tokenHash), ERR_EXPIRED)
    ELSE Thrown(ch, tk, "OK")

\* Mutant: the closure deletes a valid token whatever keepToken says.
ValidateAlwaysConsumes(ch, tk, tokenHash, keepToken, t, fault) ==
    IF fault = "get" THEN Thrown(ch, tk, "FAULT")
    ELSE IF ~Has(tk, tokenHash) THEN Thrown(ch, tk, ERR_NOT_FOUND)
    ELSE IF IsExpired(tk[tokenHash].expires, t)
        THEN Thrown(ch, Delete(tk, tokenHash), ERR_EXPIRED)
    ELSE IF fault = "delete" THEN Thrown(ch, tk, "FAULT")
    ELSE Thrown(ch, Delete(tk, tokenHash), "OK")

\* Mutant: the closure does not look at the token's expiry.
ValidateNoExpiry(ch, tk, tokenHash, keepToken, t, fault) ==
    IF fault = "get" THEN Thrown(ch, tk, "FAULT")
    ELSE IF ~Has(tk, tokenHash) THEN Thrown(ch, tk, ERR_NOT_FOUND)
    ELSE IF keepToken THEN Thrown(ch, tk, "OK")
    ELSE IF fault = "delete" THEN Thrown(ch, tk, "FAULT")
    ELSE Thrown(ch, Delete(tk, tokenHash), "OK")

\* Mutant: the closure takes a token without a record for valid.
ValidateIgnoresAbsence(ch, tk, tokenHash, keepToken, t, fault) ==
    IF fault = "get" THEN Thrown(ch, tk, "FAULT")
    ELSE IF ~Has(tk, tokenHash) THEN Thrown(ch, tk, "OK")
    ELSE IF IsExpired(tk[tokenHash].expires, t)
        THEN Thrown(ch, Delete(tk, tokenHash), ERR_EXPIRED)
    ELSE IF keepToken THEN Thrown(ch, tk, "OK")
    ELSE IF fault = "delete" THEN Thrown(ch, tk, "FAULT")
    ELSE Thrown(ch, Delete(tk, tokenHash), "OK")

\* The closure of validateAndConsumeToken.
ValidateClosure(ch, tk, tokenHash, keepToken, t, fault) ==
    IF fault = "get" THEN Thrown(ch, tk, "FAULT")
    ELSE IF ~Has(tk, tokenHash) THEN Thrown(ch, tk, ERR_NOT_FOUND)
    ELSE IF IsExpired(tk[tokenHash].expires, t)
        THEN Thrown(ch, Delete(tk, tokenHash), ERR_EXPIRED)
    ELSE IF keepToken THEN Thrown(ch, tk, "OK")
    ELSE IF fault = "delete" THEN Thrown(ch, tk, "FAULT")
    ELSE Thrown(ch, Delete(tk, tokenHash), "OK")

\* Mutant: the writes of a closure that throws are kept.
TransactionNoRollback(ch, tk, res) == [ch |-> res.ch, tk |-> res.tk]

\* storage.transaction(closure): the buffered writes are committed when the
\* closure returns and rolled back when it throws.
Transaction(ch, tk, res) ==
    IF res.err = "OK" THEN [ch |-> res.ch, tk |-> res.tk]
    ELSE [ch |-> ch, tk |-> tk]

\* ------------------------------------------------------------- responses
Response(status, success, error) ==
    [status |-> status, success |-> success, error |-> error]

\* Mutant: NOT_FOUND falls through to the 409 answer, as in the redeem route.
ValidateErrorAsRedeem(err) ==
    IF err = ERR_EXPIRED THEN Response(410, "false", "Token expired")
    ELSE Response(409, "false", "Token already consumed")

\* Mutant: the redeem route tells NOT_FOUND apart, as the validate route does.
RedeemErrorTellsNotFound(err) ==
    IF err = ERR_NOT_FOUND THEN Response(404, "false", "Challenge not found")
    ELSE IF err = ERR_EXPIRED THEN Response(410, "false", "Challenge expired")
    ELSE Response(409, "false", "Challenge already redeemed")

\* catch block of the redeem route
RedeemErrorResponse(err) ==
    IF err = ERR_EXPIRED THEN Response(410, "false", "Challenge expired")
    ELSE Response(409, "false", "Challenge already redeemed")

\* catch block of the validate route
ValidateErrorResponse(err) ==
    IF err = ERR_NOT_FOUND THEN Response(404, "false", "Token not found")
    ELSE IF err = ERR_EXPIRED THEN Response(410, "false", "Token expired")
    ELSE Response(409, "false", "Token already consumed")

\* ------------------------------------------------------------------ state
\* A request in flight: its route, the await it is at, and its locals.
Request(pc, id, hash, pre) == [pc |-> pc, id |-> id, hash |-> hash, pre |-> pre]

\* A response, with the request it answers.  `fault`: a storage fault hit its
\* transaction.  `pre`: what was known of the challenge id when a redeem
\* request did its existence check ("new": never stored, "issued": stored and
\* not redeemed, "redeemed": a redeem of it had succeeded).
Answer(op, id, hash, keep, resp, fault, pre) ==
    [op |-> op, id |-> id, hash |-> hash, keep |-> keep, status |-> resp.status,
     success |-> resp.success, error |-> resp.error, fault |-> fault, pre |-> pre]

NoAnswer == Answer("none", 0, << >>, FALSE, Response(0, "none", ""), FALSE, "none")

Count(m, k) == IF Has(m, k) THEN m[k] ELSE 0
Redeemed(id) == IF Has(redeemed, id) THEN redeemed[id] ELSE {}
WasStored(hash) == \E id \in DOMAIN redeemed : hash \in redeemed[id]
Bump(m, k) == Put(m, k, IF Count(m, k) < 2 THEN Count(m, k) + 1 ELSE 2)

\* What alarm() leaves in `last` when it returns: `fault` tells whether a
\* storage call of the sweep threw (the catch block ran).
AlarmDone(fault) ==
    Answer("alarm", 0, << >>, FALSE, Response(0, "none", ""), fault, "none")

\* alarm() is not running.
GcIdle ==
    [pc |-> "idle", t |-> 0, todo |-> {}, ch |-> EmptyMap, tk |-> EmptyMap, late |-> {}]

InFlight == BagToSet(req)
Add(q) == req (+) SetToBag({q})
Remove(q) == req (-) SetToBag({q})

\* setAlarm(Date.now() + CLEANUP_INTERVAL_MS)
NextAlarm(t) == t + CLEANUP_INTERVAL_MS

\* Mutant: the catch block of alarm() only logs.
AlarmLostOnFault(fault, t) == IF fault THEN NoAlarm ELSE NextAlarm(t)

\* The alarm pending when alarm() returns at time t: set at the end of the
\* try block, or by the catch block when a storage call of the try block threw.
Rescheduled(fault, t) == IF fault THEN NextAlarm(t) ELSE NextAlarm(t)

\* Mutant: the constructor schedules nothing.
ConstructorSchedulesNothing(alarm, t) == alarm

\* The constructor at time t: the pending alarm it leaves, given the one it
\* finds (getAlarm): it sets the first alarm only when none is pending.
Constructor(alarm, t) == IF alarm = NoAlarm THEN NextAlarm(t) ELSE alarm

\* The state once the storage object is constructed for the first time: an
\* empty store and the first cleanup alarm scheduled.
Init ==
    /\ now = 0
    /\ challenges = EmptyMap
    /\ tokens = EmptyMap
    /\ alarmAt = Constructor(NoAlarm, now)
    /\ req = EmptyBag
    /\ last = NoAnswer
    /\ issued = EmptyMap
    /\ minted = EmptyMap
    /\ redeemed = EmptyMap
    /\ consumeOk = EmptyMap
    /\ gc = GcIdle

\* ---------------------------------------------------------------- actions
\* The clock advances.
Tick ==
    /\ last = NoAnswer
    /\ now < MaxNow
    /\ now' = now + 1
    /\ UNCHANGED <<challenges, tokens, alarmAt, req, last, issued, minted, redeemed, consumeOk, gc>>

\* Mutant: the library hands out an id it has handed out before.
RepeatedChallengeId ==
    IF issued = EmptyMap THEN Cardinality(DOMAIN issued) + 1
    ELSE Cardinality(DOMAIN issued)

\* The id of the challenge createChallenge() returns (25 random bytes): one no
\* earlier challenge had.
FreshChallengeId == Cardinality(DOMAIN issued) + 1

\* POST /api/challenge: createChallenge() and storeChallenge().
PostChallenge ==
    LET id == FreshChallengeId
        challengeData == [expires |-> now + ChallengeTTL]
    IN  /\ last = NoAnswer
        /\ id \in Ids
        /\ challenges' = Put(challenges, id, challengeData)
        /\ issued' = Put(issued, id, challengeData.expires)
        /\ UNCHANGED <<now, tokens, alarmAt, req, last, minted, redeemed, consumeOk, gc>>

\* POST /api/redeem, up to the finalizeRedeem call: request.json(), the body
\* check, getChallenge(token), verifyChallengeSolution(challenge, solutions)
\* and hashToken(result.token).  Verification reads no shared state, so it is
\* taken in the step of the existence check.
\*   "invalid"  the body is not JSON
\*   "missing"  token or solutions missing, or solutions not an array
\*   "ok"       {token, solutions}
RedeemBodies ==
    {[kind |-> k, token |-> 0] : k \in {"invalid", "missing"}} \cup
    {[kind |-> "ok", token |-> id] : id \in Ids}

\* The Cap library's verdict on the solutions:
\*   "fail"       {success: false}
\*   "incomplete" {success: true} with the token or the expiry missing
\*   "ok"         {success: true, token, expires} with a fresh token
VerifyResults == {"fail", "incomplete", "ok"}

Known(id) ==
    IF Redeemed(id) # {} THEN "redeemed"
    ELSE IF Has(issued, id) THEN "issued" ELSE "new"

\* The token redeemChallenge() returns on success ("<id>:<secret>", both
\* random): one it never returned before.
FreshToken == Cardinality(DOMAIN minted) + 1

\* Mutant: a failed verification uses the challenge up.
RedeemStartConsuming ==
    /\ last = NoAnswer
    /\ \E id \in DOMAIN challenges :
        /\ last' = Answer("redeem", id, << >>, FALSE, Response(200, "false", ""),
                          FALSE, Known(id))
        /\ challenges' = Delete(challenges, id)
    /\ UNCHANGED <<now, tokens, alarmAt, req, issued, minted, redeemed, consumeOk, gc>>

RedeemStart ==
    /\ last = NoAnswer
    /\ BagCardinality(req) < NReq
    /\ \E body \in RedeemBodies, result \in VerifyResults :
        LET answer(resp) == Answer("redeem", body.token, << >>, FALSE, resp, FALSE,
                                   IF body.kind = "ok" THEN Known(body.token) ELSE "none")
            t == FreshToken
            tokenHash == hashToken(TokenString(t))
        IN  IF body.kind = "invalid"
                THEN /\ last' = answer(Response(400, "false", "Invalid request body"))
                     /\ UNCHANGED <<req, minted>>
            ELSE IF body.kind = "missing"
                THEN /\ last' = answer(Response(400, "false", "Missing token or solutions"))
                     /\ UNCHANGED <<req, minted>>
            ELSE IF ~Has(challenges, body.token)
                THEN /\ last' = answer(Response(404, "false", "Challenge not found"))
                     /\ UNCHANGED <<req, minted>>
            ELSE IF result = "fail"
                THEN /\ last' = answer(Response(200, "false", ""))
                     /\ UNCHANGED <<req, minted>>
            ELSE IF result = "incomplete"
                THEN /\ last' = answer(Response(200, "true", ""))
                     /\ UNCHANGED <<req, minted>>
            ELSE /\ t \in Toks
                 /\ req' = Add(Request("finalize", body.token, tokenHash, Known(body.token)))
                 /\ minted' = Put(minted, tokenHash, now + TokenTTL)
                 /\ UNCHANGED last
    /\ UNCHANGED <<now, challenges, tokens, alarmAt, issued, redeemed, consumeOk, gc>>

\* finalizeRedeem(token, tokenHash, {expires: result.expires}) and the response.
RedeemFinalize ==
    \E q \in InFlight :
    /\ last = NoAnswer
    /\ q.pc = "finalize"
    /\ \E fault \in FinalizeFaults :
        LET res == FinalizeRedeemClosure(challenges, tokens, q.id, q.hash,
                        [expires |-> minted[q.hash]], now, fault)
            st == Transaction(challenges, tokens, res)
            resp == IF res.err = "OK" THEN Response(200, "true", "")
                    ELSE RedeemErrorResponse(res.err)
        IN  /\ challenges' = st.ch
            /\ tokens' = st.tk
            /\ req' = Remove(q)
            /\ last' = Answer("redeem", q.id, q.hash, FALSE, resp, res.err = "FAULT", q.pre)
            /\ redeemed' = IF res.err = "OK"
                           THEN Put(redeemed, q.id, Redeemed(q.id) \cup {q.hash})
                           ELSE redeemed
    /\ UNCHANGED <<now, alarmAt, issued, minted, consumeOk, gc>>

\* POST /api/validate: request.json(), the body check, hashToken(token),
\* validateAndConsumeToken(tokenHash, keepToken) and the response.  The route
\* makes one storage call, so it is one step.  An exception of hashToken is
\* caught by nobody: the request ends as an internal error of the runtime
\* (status 500, no JSON body).
ValidateTokens ==
    {TokenString(t) : t \in Toks} \cup {<<1>>, <<1, 0>>, <<1, 1, 0>>}

\*   "invalid"  the body is not JSON
\*   "missing"  token missing or empty
\*   "ok"       {token, keepToken}; a missing keepToken acts as false
ValidateBodies ==
    {[kind |-> k, token |-> << >>, keepToken |-> FALSE] : k \in {"invalid", "missing"}} \cup
    {[kind |-> "ok", token |-> tk, keepToken |-> k] : tk \in ValidateTokens, k \in BOOLEAN}

Validate ==
    /\ last = NoAnswer
    /\ \E body \in ValidateBodies, fault \in ValidateFaults :
        LET reject(resp) == Answer("validate", 0, << >>, body.keepToken, resp, FALSE, "none")
            tokenHash == hashToken(body.token)
            res == ValidateClosure(challenges, tokens, tokenHash, body.keepToken, now, fault)
            st == Transaction(challenges, tokens, res)
            resp == IF res.err = "OK" THEN Response(200, "true", "")
                    ELSE ValidateErrorResponse(res.err)
        IN  IF body.kind = "invalid"
                THEN /\ last' = reject(Response(400, "false", "Invalid request body"))
                     /\ UNCHANGED <<challenges, tokens, consumeOk>>
            ELSE IF body.kind = "missing"
                THEN /\ last' = reject(Response(400, "false", "Missing token"))
                     /\ UNCHANGED <<challenges, tokens, consumeOk>>
            ELSE IF hashTokenThrows(body.token)
                THEN /\ last' = reject(Response(500, "none", "Invalid token format"))
                     /\ UNCHANGED <<challenges, tokens, consumeOk>>
            ELSE /\ challenges' = st.ch
                 /\ tokens' = st.tk
                 /\ last' = Answer("validate", 0, tokenHash, body.keepToken, resp,
                                   res.err = "FAULT", "none")
                 /\ consumeOk' = IF res.err = "OK" /\ ~body.keepToken
                                 THEN Bump(consumeOk, tokenHash) ELSE consumeOk
    /\ UNCHANGED <<now, alarmAt, req, issued, minted, redeemed, gc>>

\* The handler returns (fetch() its Response, alarm() nothing).  Returning
\* touches no shared state, so it is taken as the step right after the
\* handler's last storage call.
Respond ==
    /\ last # NoAnswer
    /\ last' = NoAnswer
    /\ UNCHANGED <<now, challenges, tokens, alarmAt, req, issued, minted, redeemed, consumeOk, gc>>

\* ------------------------------------------------------------ alarm()
\* Keys of `m` whose record is expired at time t.
ExpiredKeys(m, t) == {k \in DOMAIN m : IsExpired(m[k].expires, t)}

DeleteAll(m, keys) == [x \in (DOMAIN m) \ keys |-> m[x]]

\* Mutant: the sweep stops after the challenges.
SweepSkipsTokens(ch, tk, t) ==
    [ch |-> DeleteAll(ch, ExpiredKeys(ch, t)), tk |-> tk]

\* The sweep of alarm() at time t, complete.
Sweep(ch, tk, t) ==
    [ch |-> DeleteAll(ch, ExpiredKeys(ch, t)), tk |-> DeleteAll(tk, ExpiredKeys(tk, t))]

\* The stores a sweep at time t can leave behind when a storage call throws
\* part-way (a list, a delete, or the setAlarm of the try block): some of the
\* expired challenges deleted and no token, or every expired challenge and
\* some of the expired tokens.
PartialSweeps(ch, tk, t) ==
    {[ch |-> DeleteAll(ch, done), tk |-> tk] : done \in SUBSET ExpiredKeys(ch, t)} \cup
    {[ch |-> DeleteAll(ch, ExpiredKeys(ch, t)), tk |-> DeleteAll(tk, done)] :
        done \in SUBSET ExpiredKeys(tk, t)}

\* The pending alarm fires and alarm() runs to its end: the sweep, complete
\* or cut short by a storage fault, and, in the try block or in the catch
\* block, setAlarm(Date.now() + CLEANUP_INTERVAL_MS).
AlarmRun ==
    /\ last = NoAnswer
    /\ alarmAt # NoAlarm
    /\ alarmAt <= now
    /\ \E fault \in BOOLEAN :
        \E st \in IF fault THEN PartialSweeps(challenges, tokens, now)
                           ELSE {Sweep(challenges, tokens, now)} :
            /\ challenges' = st.ch
            /\ tokens' = st.tk
            /\ last' = AlarmDone(fault)
            /\ alarmAt' = Rescheduled(fault, now)
    /\ UNCHANGED <<now, req, issued, minted, redeemed, consumeOk, gc>>

\* ------------------------------------------- alarm(), await by await
\* The storage object alone, with alarm() split at each of its awaits and the
\* calls of the storage methods falling between them.  While alarm() runs, gc
\* carries a serial run to compare with: gc.ch and gc.tk are the store as the
\* calls placed before the tick leave it (the tick taken as not yet begun),
\* gc.late holds the calls placed after the tick.

\* Mutant: the loop deletes every record listed.
AlarmDueAll(m, t) == DOMAIN m

\* The listed records the loop of alarm() deletes: `record.expires < now`,
\* with the now read when alarm() began.
AlarmDue(m, t) == {k \in DOMAIN m : IsExpired(m[k].expires, t)}

\* A call that ran as `res` on the store is placed before the tick when it
\* runs the same on the store without the tick (`ghost`), after it otherwise.
Placed(res, ghost, call) ==
    IF gc.pc = "idle" THEN gc
    ELSE IF ghost.err = res.err
        THEN [gc EXCEPT !.ch = Transaction(gc.ch, gc.tk, ghost).ch,
                        !.tk = Transaction(gc.ch, gc.tk, ghost).tk]
    ELSE [gc EXCEPT !.late = @ \cup {call}]

Call(op, id, hash, keep, err) ==
    [op |-> op, id |-> id, hash |-> hash, keep |-> keep, t |-> now, err |-> err]

\* storeChallenge(token, challengeData), with a challenge just created.
StoreChallenge ==
    LET id == FreshChallengeId
        challengeData == [expires |-> now + ChallengeTTL]
    IN  /\ id \in Ids
        /\ challenges' = Put(challenges, id, challengeData)
        /\ issued' = Put(issued, id, challengeData.expires)
        /\ gc' = IF gc.pc = "idle" THEN gc
                 ELSE [gc EXCEPT !.ch = Put(@, id, challengeData)]
        /\ UNCHANGED <<now, tokens, alarmAt, req, last, minted, redeemed, consumeOk>>

\* finalizeRedeem(token, tokenHash, tokenData), with a token just returned by
\* the verifier.
FinalizeRedeem ==
    /\ FreshToken \in Toks
    /\ \E id \in Ids :
        LET tokenHash == hashToken(TokenString(FreshToken))
            tokenData == [expires |-> now + TokenTTL]
            res == FinalizeRedeemClosure(challenges, tokens, id, tokenHash,
                                         tokenData, now, "none")
            ghost == FinalizeRedeemClosure(gc.ch, gc.tk, id, tokenHash,
                                           tokenData, now, "none")
            st == Transaction(challenges, tokens, res)
        IN  /\ challenges' = st.ch
            /\ tokens' = st.tk
            /\ minted' = Put(minted, tokenHash, tokenData.expires)
            /\ gc' = Placed(res, ghost, Call("finalize", id, tokenHash, FALSE, res.err))
    /\ UNCHANGED <<now, alarmAt, req, last, issued, redeemed, consumeOk>>

\* validateAndConsumeToken(tokenHash, keepToken)
ValidateAndConsumeToken ==
    /\ \E t \in Toks, keepToken \in BOOLEAN :
        LET tokenHash == hashToken(TokenString(t))
            res == ValidateClosure(challenges, tokens, tokenHash, keepToken, now, "none")
            ghost == ValidateClosure(gc.ch, gc.tk, tokenHash, keepToken, now, "none")
            st == Transaction(challenges, tokens, res)
        IN  /\ challenges' = st.ch
            /\ tokens' = st.tk
            /\ gc' = Placed(res, ghost, Call("validate", 0, tokenHash, keepToken, res.err))
    /\ UNCHANGED <<now, alarmAt, req, last, issued, minted, redeemed, consumeOk>>

\* alarm() begins: Date.now() and list({prefix: "challenge:"}).
AlarmListChallenges ==
    /\ gc.pc = "idle"
    /\ alarmAt # NoAlarm
    /\ alarmAt <= now
    /\ gc' = [pc |-> "challenges", t |-> now, todo |-> AlarmDue(challenges, now),
              ch |-> challenges, tk |-> tokens, late |-> {}]
    /\ UNCHANGED <<now, challenges, tokens, alarmAt, req, last, issued, minted,
                   redeemed, consumeOk>>

\* One delete(key) of the first loop.
AlarmDeleteChallenge ==
    /\ gc.pc = "challenges"
    /\ \E key \in gc.todo :
        /\ challenges' = Delete(challenges, key)
        /\ gc' = [gc EXCEPT !.todo = @ \ {key}]
    /\ UNCHANGED <<now, tokens, alarmAt, req, last, issued, minted, redeemed, consumeOk>>

\* The first loop is over: list({prefix: "token:"}).
AlarmListTokens ==
    /\ gc.pc = "challenges"
    /\ gc.todo = {}
    /\ gc' = [gc EXCEPT !.pc = "tokens", !.todo = AlarmDue(tokens, gc.t)]
    /\ UNCHANGED <<now, challenges, tokens, alarmAt, req, last, issued, minted,
                   redeemed, consumeOk>>

\* One delete(key) of the second loop.
AlarmDeleteToken ==
    /\ gc.pc = "tokens"
    /\ \E key \in gc.todo :
        /\ tokens' = Delete(tokens, key)
        /\ gc' = [gc EXCEPT !.todo = @ \ {key}]
    /\ UNCHANGED <<now, challenges, alarmAt, req, last, issued, minted, redeemed, consumeOk>>

\* The second loop is over: setAlarm, and alarm() returns.
AlarmSetAlarm ==
    /\ gc.pc = "tokens"
    /\ gc.todo = {}
    /\ alarmAt' = Rescheduled(FALSE, now)
    /\ gc' = GcIdle
    /\ UNCHANGED <<now, challenges, tokens, req, last, issued, minted, redeemed, consumeOk>>

\* A storage call of alarm() throws: the catch block sets the alarm, and
\* alarm() returns.
AlarmCatch ==
    /\ gc.pc \in {"challenges", "tokens"}
    /\ gc.todo # {}
    /\ alarmAt' = Rescheduled(TRUE, now)
    /\ gc' = GcIdle
    /\ UNCHANGED <<now, challenges, tokens, req, last, issued, minted, redeemed, consumeOk>>

StorageNext ==
    \/ Tick
    \/ StoreChallenge
    \/ FinalizeRedeem
    \/ ValidateAndConsumeToken
    \/ AlarmListChallenges
    \/ AlarmDeleteChallenge
    \/ AlarmListTokens
    \/ AlarmDeleteToken
    \/ AlarmSetAlarm
    \/ AlarmCatch

StorageSpec == Init /\ [][StorageNext]_vars

\* ------------------------------------- the transactions, on any store
\* finalizeRedeem and validateAndConsumeToken called with any arguments on a
\* store holding any challenge and token records, at any time.
StoreIds == 1..(NIds + 1)
StoreHashes == {hashToken(TokenString(t)) : t \in Toks}

\* Expiry times before, at and after the times of the clock.
StoreExpiries == {0, MaxNow}

\* The stores with records under some of `keys`.
Stores(keys) ==
    UNION {{[k \in d |-> [expires |-> f[k]]] : f \in [d -> StoreExpiries]} :
            d \in SUBSET keys}

StoreInit ==
    /\ now \in 0..MaxNow
    /\ challenges \in Stores(StoreIds)
    /\ tokens \in Stores(StoreHashes)
    /\ alarmAt = Constructor(NoAlarm, now)
    /\ req = EmptyBag
    /\ last = NoAnswer
    /\ issued = EmptyMap
    /\ minted = EmptyMap
    /\ redeemed = EmptyMap
    /\ consumeOk = EmptyMap
    /\ gc = GcIdle

\* finalizeRedeem(token, tokenHash, tokenData); `last` keeps the call.
FinalizeRedeemOnStore ==
    /\ \E id \in StoreIds, tokenHash \in StoreHashes, fault \in FinalizeFaults :
        LET res == FinalizeRedeemClosure(challenges, tokens, id, tokenHash,
                        [expires |-> now + TokenTTL], now, fault)
            st == Transaction(challenges, tokens, res)
            resp == IF res.err = "OK" THEN Response(200, "true", "")
                    ELSE RedeemErrorResponse(res.err)
        IN  /\ challenges' = st.ch
            /\ tokens' = st.tk
            /\ last' = Answer("redeem", id, tokenHash, FALSE, resp, res.err = "FAULT", "none")
    /\ UNCHANGED <<now, alarmAt, req, issued, minted, redeemed, consumeOk, gc>>

\* validateAndConsumeToken(tokenHash, keepToken); `last` keeps the call.
ValidateOnStore ==
    /\ \E tokenHash \in StoreHashes, keepToken \in BOOLEAN, fault \in ValidateFaults :
        LET res == ValidateClosure(challenges, tokens, tokenHash, keepToken, now, fault)
            st == Transaction(challenges, tokens, res)
            resp == IF res.err = "OK" THEN Response(200, "true", "")
                    ELSE ValidateErrorResponse(res.err)
        IN  /\ challenges' = st.ch
            /\ tokens' = st.tk
            /\ last' = Answer("validate", 0, tokenHash, keepToken, resp,
                              res.err = "FAULT", "none")
    /\ UNCHANGED <<now, alarmAt, req, issued, minted, redeemed, consumeOk, gc>>

StoreNext ==
    \/ FinalizeRedeemOnStore
    \/ ValidateOnStore

StoreSpec == StoreInit /\ [][StoreNext]_vars

\* ---------------------------------------------------------- specification
Next ==
    \/ Tick
    \/ PostChallenge
    \/ RedeemStart
    \/ RedeemFinalize
    \/ Validate
    \/ Respond
    \/ AlarmRun

Spec == Init /\ [][Next]_vars

\* The runtime delivers a pending alarm once its time has come, whatever
\* requests keep arriving; the clock advances; a handler that has produced
\* its answer returns.
Fairness ==
    /\ SF_vars(Tick)
    /\ SF_vars(AlarmRun)
    /\ WF_vars(Respond)

FairSpec == Init /\ [][Next]_vars /\ Fairness

\* ------------------------------------------------------------------ claims
\* The request answered by `last` carried a valid solution for a challenge
\* that was stored and is still unexpired, and no storage fault hit it: it
\* reached finalizeRedeem, or it was turned away by the existence check.
RedeemRaceCase ==
    /\ last.op = "redeem"
    /\ Has(issued, last.id)
    /\ now <= issued[last.id]
    /\ ~last.fault
    /\ (last.hash # << >> \/ last.status = 404)

\* C1: at-most-once redemption.  While a challenge is unexpired, of the redeem
\* requests that carry a valid solution for it exactly one is answered
\* success:true; every other one is answered 409 "Challenge already redeemed"
\* or 404 "Challenge not found", and only once the winner has committed.
AtMostOnceRedemption ==
    /\ \A id \in DOMAIN redeemed : Cardinality(redeemed[id]) <= 1
    /\ RedeemRaceCase =>
        /\ Cardinality(Redeemed(last.id)) = 1
        /\ \/ /\ last.status = 200
              /\ last.success = "true"
              /\ Redeemed(last.id) = {last.hash}
           \/ /\ last.status = 409
              /\ last.success = "false"
              /\ last.error = "Challenge already redeemed"
              /\ last.hash \notin Redeemed(last.id)
           \/ /\ last.status = 404
              /\ last.success = "false"
              /\ last.error = "Challenge not found"

\* C1 witness: a request that passed the existence check while the challenge
\* was stored lost the race to another one and is answered 409.
AtMostOnceRedemptionWitness ==
    /\ RedeemRaceCase
    /\ last.status = 409
    /\ last.pre = "issued"
    /\ Cardinality(Redeemed(last.id)) = 1

\* The request answered by `last` asked to consume a token that was stored and
\* is still unexpired, and no storage fault hit it.
ConsumeRaceCase ==
    /\ last.op = "validate"
    /\ ~last.keep
    /\ ~last.fault
    /\ WasStored(last.hash)
    /\ now <= minted[last.hash]

\* C2: at-most-once consumption.  While a token is unexpired, of the validate
\* requests with keepToken=false for it exactly one is answered success:true
\* and every other one fails.
AtMostOnceConsumption ==
    /\ \A h \in DOMAIN consumeOk : consumeOk[h] <= 1
    /\ ConsumeRaceCase =>
        /\ Count(consumeOk, last.hash) = 1
        /\ ~Has(tokens, last.hash)
        /\ \/ last.status = 200 /\ last.success = "true"
           \/ last.status # 200 /\ last.success = "false"

\* C2 witness: a consuming validate of an unexpired token fails because an
\* earlier one has consumed it.
AtMostOnceConsumptionWitness ==
    /\ ConsumeRaceCase
    /\ last.success = "false"
    /\ Count(consumeOk, last.hash) = 1

\* C3: a token record appears only in a step in which finalizeRedeem finds its
\* challenge stored and unexpired and deletes it; a finalizeRedeem that finds
\* the challenge stored and unexpired (and meets no storage fault) stores the
\* token and deletes the challenge in that one step; and a challenge record
\* that disappears unexpired does so in a step that stores its token.
AtomicRedeem ==
    [][ /\ \A h \in (DOMAIN tokens') \ (DOMAIN tokens) :
            \E q \in InFlight :
                /\ q.hash = h
                /\ req' = Remove(q)
                /\ Has(challenges, q.id)
                /\ ~(challenges[q.id].expires < now)
                /\ ~Has(challenges', q.id)
        /\ \A q \in InFlight :
            ( /\ req' = Remove(q)
              /\ Has(challenges, q.id)
              /\ ~(challenges[q.id].expires < now)
              /\ ~last'.fault )
            => /\ Has(tokens', q.hash)
               /\ ~Has(challenges', q.id)
               /\ last'.success = "true"
        /\ \A id \in (DOMAIN challenges) \ (DOMAIN challenges') :
            \/ challenges[id].expires < now
            \/ \E q \in InFlight :
                /\ q.id = id
                /\ req' = Remove(q)
                /\ ~Has(tokens, q.hash)
                /\ Has(tokens', q.hash)
      ]_vars

\* C3 witness: a redeem has just committed; its token is stored and its
\* challenge is gone.
AtomicRedeemWitness ==
    /\ last.op = "redeem"
    /\ last.success = "true"
    /\ last.hash # << >>
    /\ Has(tokens, last.hash)
    /\ ~Has(challenges, last.id)

IdempotentRetention ==
    [][ ( /\ last = NoAnswer
          /\ last'.op = "validate"
          /\ last'.keep
          /\ ~last'.fault
          /\ Has(tokens, last'.hash)
          /\ ~(tokens[last'.hash].expires < now) )
        => /\ last'.status = 200
           /\ last'.success = "true"
           /\ tokens' = tokens
           /\ challenges' = challenges
      ]_vars

\* C6 witness: a retaining validate has succeeded and the token is still
\* stored and unexpired.
IdempotentRetentionWitness ==
    /\ last.op = "validate"
    /\ last.keep
    /\ last.success = "true"
    /\ Has(tokens, last.hash)
    /\ ~(tokens[last.hash].expires < now)

\* C7 as claimed: a redeem request for a challenge id that an earlier,
\* completed request has redeemed is answered 409 "Challenge already redeemed".
SequentialDoubleRedeemIs409 ==
    (last.op = "redeem" /\ last.pre = "redeemed")
        => /\ last.status = 409
           /\ last.error = "Challenge already redeemed"

\* C7 as amended: such a request is answered 404 "Challenge not found" by the
\* existence check.
SequentialDoubleRedeemIs404 ==
    (last.op = "redeem" /\ last.pre = "redeemed")
        => /\ last.status = 404
           /\ last.success = "false"
           /\ last.error = "Challenge not found"

\* C7 witness: a redeem request for an already redeemed id has been answered.
SequentialDoubleRedeemWitness ==
    /\ last.op = "redeem"
    /\ last.pre = "redeemed"
    /\ now <= issued[last.id]

\* The validate answered by `last` found its token gone because an earlier
\* validate had consumed it.
LostConsumeRace ==
    /\ last.op = "validate"
    /\ ~last.fault
    /\ last.success = "false"
    /\ Count(consumeOk, last.hash) > 0

\* C8 as claimed: a validate that loses the race for a token is answered 409
\* "Token already consumed".
LostRaceIsAlreadyConsumed ==
    LostConsumeRace
        => /\ last.status = 409
           /\ last.error = "Token already consumed"

\* C8 as amended: it is answered 404 "Token not found".
LostRaceIsNotFound ==
    LostConsumeRace
        => /\ last.status = 404
           /\ last.error = "Token not found"

\* C8 witness: a validate has lost the race for an unexpired token.
LostRaceWitness ==
    /\ LostConsumeRace
    /\ now <= minted[last.hash]

\* The validate answered by `last` was for a token that was stored and whose
\* expiry the clock has passed, and no storage fault hit it.
ValidateAfterExpiry ==
    /\ last.op = "validate"
    /\ ~last.fault
    /\ WasStored(last.hash)
    /\ minted[last.hash] < now

\* C9 as claimed: such a validate is answered 410 "Token expired".
ExpiredTokenIs410 ==
    ValidateAfterExpiry
        => /\ last.status = 410
           /\ last.error = "Token expired"

\* C9 as amended: it is answered 410 "Token expired" while the record is still
\* stored, and 404 "Token not found" once a sweep or an earlier validate has
\* removed it.
ExpiredTokenIs410Or404 ==
    ValidateAfterExpiry
        => /\ last.success = "false"
           /\ IF Has(tokens, last.hash)
              THEN last.status = 410 /\ last.error = "Token expired"
              ELSE last.status = 404 /\ last.error = "Token not found"

\* C9 witness: an expired token that is still stored is refused with 410.
ExpiredTokenWitness ==
    /\ ValidateAfterExpiry
    /\ last.status = 410
    /\ Has(tokens, last.hash)

\* C10 as claimed: every request that does not succeed is answered
\* success:false with status 400, 404, 409 or 410.
FailuresAreTranslated ==
    (last.op \in {"redeem", "validate"} /\ last.success # "true")
        => /\ last.success = "false"
           /\ last.status \in {400, 404, 409, 410}

\* The step answers a redeem request whose solutions the verifier rejected.
VerificationFails ==
    /\ last = NoAnswer
    /\ last'.op = "redeem"
    /\ last'.status = 200
    /\ last'.success = "false"

\* C11: a failed verification mutates no state.  The step that answers it
\* leaves every challenge and token record (and the alarm and the requests in
\* flight) as they were; the challenge is still stored, and while it is
\* unexpired a finalizeRedeem for it with any token of the verifier, run on
\* the store as the step left it, commits: it deletes the challenge and
\* stores the token.
FailedVerificationMutatesNothing ==
    [][ VerificationFails
        => /\ challenges' = challenges
           /\ tokens' = tokens
           /\ alarmAt' = alarmAt
           /\ req' = req
           /\ Has(challenges', last'.id)
           /\ ~IsExpired(challenges'[last'.id].expires, now')
                => \A t \in Toks :
                    LET tokenHash == hashToken(TokenString(t))
                        res == FinalizeRedeemClosure(challenges', tokens', last'.id,
                                   tokenHash, [expires |-> now' + TokenTTL], now', "none")
                        st == Transaction(challenges', tokens', res)
                    IN  /\ res.err = "OK"
                        /\ ~Has(st.ch, last'.id)
                        /\ Has(st.tk, tokenHash)
      ]_vars

\* C11 witness: a redeem request has been answered success:false by a failed
\* verification, and its challenge is still stored and unexpired.
FailedVerificationWitness ==
    /\ last.op = "redeem"
    /\ last.status = 200
    /\ last.success = "false"
    /\ Has(challenges, last.id)
    /\ ~IsExpired(challenges[last.id].expires, now)

\* C12: alarm() always reschedules itself.  When alarm() returns, whether
\* its sweep completed or a storage call threw part-way, the pending alarm is
\* at now + CLEANUP_INTERVAL_MS; and no step leaves the object without a
\* pending alarm.
AlarmAlwaysReschedules ==
    [][ /\ (last = NoAnswer /\ last'.op = "alarm")
            => alarmAt' = now' + CLEANUP_INTERVAL_MS
        /\ alarmAt' # NoAlarm
        /\ alarmAt' <= now' + CLEANUP_INTERVAL_MS
      ]_vars

\* C12 witness: alarm() has returned from a sweep that a storage fault cut
\* short, leaving an expired record behind, and the next alarm is pending.
AlarmAlwaysReschedulesWitness ==
    /\ last.op = "alarm"
    /\ last.fault
    /\ \E id \in DOMAIN challenges : IsExpired(challenges[id].expires, now)
    /\ alarmAt = now + CLEANUP_INTERVAL_MS

\* C13 as claimed: a record is valid only while now < expiresAt.  No redeem
\* is committed and no validate succeeds at the instant now = expiresAt or
\* later, and no record stored at that instant survives a complete sweep.
StrictExpiryBoundary ==
    /\ (last.op = "redeem" /\ last.success = "true" /\ last.hash # << >>)
        => now < issued[last.id]
    /\ (last.op = "validate" /\ last.success = "true")
        => now < minted[last.hash]
    /\ (last.op = "alarm" /\ ~last.fault)
        => /\ \A id \in DOMAIN challenges : now < challenges[id].expires
           /\ \A h \in DOMAIN tokens : now < tokens[h].expires

\* C13 as amended: a record is valid while now <= expiresAt.  A finalizeRedeem
\* that finds its challenge stored, and a validateAndConsumeToken that finds
\* its token stored (no storage fault), is answered 410 exactly when
\* expiresAt < now and success otherwise; and no alarm() removes a record
\* whose expiresAt is now or later.
InclusiveExpiryBoundary ==
    [][ /\ \A q \in InFlight :
            (req' = Remove(q) /\ Has(challenges, q.id) /\ ~last'.fault)
            => IF challenges[q.id].expires < now
               THEN last'.status = 410 /\ last'.success = "false"
               ELSE last'.status = 200 /\ last'.success = "true"
        /\ ( /\ last = NoAnswer
             /\ last'.op = "validate"
             /\ ~last'.fault
             /\ Has(tokens, last'.hash) )
            => IF tokens[last'.hash].expires < now
               THEN last'.status = 410 /\ last'.success = "false"
               ELSE last'.status = 200 /\ last'.success = "true"
        /\ (last = NoAnswer /\ last'.op = "alarm")
            => /\ \A id \in DOMAIN challenges :
                    now <= challenges[id].expires => Has(challenges', id)
               /\ \A h \in DOMAIN tokens :
                    now <= tokens[h].expires => Has(tokens', h)
      ]_vars

\* C13 witness: a redeem has been committed at the very instant its challenge
\* expires.
InclusiveExpiryBoundaryWitness ==
    /\ last.op = "redeem"
    /\ last.success = "true"
    /\ last.hash # << >>
    /\ now = issued[last.id]

\* A validate has succeeded at the very instant its token expires, and a
\* complete sweep at the instant a record expires has kept it.
BoundaryValidateReached ==
    /\ last.op = "validate"
    /\ last.success = "true"
    /\ now = minted[last.hash]

BoundarySweepReached ==
    /\ last.op = "alarm"
    /\ ~last.fault
    /\ \E id \in DOMAIN challenges : challenges[id].expires = now

\* C14 as claimed: detecting expiry deletes the record.  Once finalizeRedeem
\* has signalled EXPIRED (the request is answered 410) the challenge is no
\* longer stored, and once validateAndConsumeToken has signalled EXPIRED the
\* token is no longer stored, so that the next call on the key finds nothing.
ExpiryDetectionDeletes ==
    /\ (last.op = "redeem" /\ last.status = 410) => ~Has(challenges, last.id)
    /\ (last.op = "validate" /\ last.status = 410) => ~Has(tokens, last.hash)

CompleteSweepIsExact ==
    [][ (last = NoAnswer /\ last'.op = "alarm" /\ ~last'.fault)
        => /\ DOMAIN challenges' = {id \in DOMAIN challenges : ~(challenges[id].expires < now)}
           /\ \A id \in DOMAIN challenges' : challenges'[id] = challenges[id]
           /\ DOMAIN tokens' = {h \in DOMAIN tokens : ~(tokens[h].expires < now)}
           /\ \A h \in DOMAIN tokens' : tokens'[h] = tokens[h]
      ]_vars

\* C17 witness: a complete sweep has removed a token past its expiry that
\* nobody had consumed.
CompleteSweepIsExactWitness ==
    /\ last.op = "alarm"
    /\ ~last.fault
    /\ \E h \in DOMAIN minted :
        /\ WasStored(h)
        /\ minted[h] < now
        /\ Count(consumeOk, h) = 0
        /\ ~Has(tokens, h)

\* C20: the error mapping of the redeem route.  A finalizeRedeem that finds
\* its challenge expired is answered 410 "Challenge expired"; one that fails
\* in any other way (the challenge gone, or a storage fault) is answered 409
\* "Challenge already redeemed"; and 404 "Challenge not found" is the answer
\* of the existence check alone, given when the challenge is not stored and
\* before any finalizeRedeem is called.
RedeemErrorMapping ==
    [][ /\ \A q \in InFlight :
            req' = Remove(q)
            => /\ last'.op = "redeem"
               /\ IF last'.fault \/ ~Has(challenges, q.id)
                  THEN /\ last'.status = 409
                       /\ last'.success = "false"
                       /\ last'.error = "Challenge already redeemed"
                  ELSE IF challenges[q.id].expires < now
                  THEN /\ last'.status = 410
                       /\ last'.success = "false"
                       /\ last'.error = "Challenge expired"
                  ELSE last'.status = 200 /\ last'.success = "true"
        /\ ( /\ last = NoAnswer
             /\ last'.op = "redeem"
             /\ (last'.status = 404 \/ last'.error = "Challenge not found") )
            => /\ last'.status = 404
               /\ last'.error = "Challenge not found"
               /\ req' = req
               /\ last'.hash = << >>
               /\ ~Has(challenges, last'.id)
      ]_vars

\* C20 witness: finalizeRedeem has found its challenge gone (NOT_FOUND inside
\* the transaction) and the request is answered 409.
RedeemErrorMappingWitness ==
    /\ last.op = "redeem"
    /\ last.hash # << >>
    /\ ~last.fault
    /\ last.status = 409
    /\ last.error = "Challenge already redeemed"
    /\ ~Has(challenges, last.id)

\* A storage fault inside finalizeRedeem has been answered 409 while the
\* challenge is still stored, and an expired challenge 410.
RedeemFaultReached ==
    /\ last.op = "redeem"
    /\ last.fault
    /\ last.status = 409
    /\ Has(challenges, last.id)

RedeemExpiredReached ==
    /\ last.op = "redeem"
    /\ last.status = 410
    /\ last.error = "Challenge expired"

\* The clock of the model stops at MaxNow: an alarm pending beyond it never
\* fires.
BeyondHorizon == alarmAt > MaxNow

\* Some record is stored past its expiry.
ExpiredRecordStored ==
    \/ \E id \in DOMAIN challenges : challenges[id].expires < now
    \/ \E h \in DOMAIN tokens : tokens[h].expires < now

\* C18: eventual reclamation.  From the first construction of the storage
\* object on, with the alarm delivered and the clock advancing, every
\* challenge record and every token record that is stored past its expiry is
\* eventually removed from the store, whether or not any request touches it:
\* the store is free of such records again and again (a record past its
\* expiry stays so while it is stored), and every alarm() that catches no
\* error leaves none.  Such a record outlasts the clock of the model only
\* when a storage fault cut the last sweep short.
EventualReclamation ==
    /\ []<>(~ExpiredRecordStored \/ BeyondHorizon)
    /\ [][ (last = NoAnswer /\ last'.op = "alarm" /\ ~last'.fault)
            => ~ExpiredRecordStored' ]_vars

\* C18 witness: alarm() has removed a challenge that expired without ever
\* being redeemed.
EventualReclamationWitness ==
    /\ last.op = "alarm"
    /\ ~ExpiredRecordStored
    /\ \E id \in DOMAIN issued :
        /\ issued[id] < now
        /\ Redeemed(id) = {}
        /\ ~Has(challenges, id)

\* The call `c`, run on the store <<ch, tk>>, ends as it did and writes nothing.
RunsLate(c, ch, tk) ==
    LET res == IF c.op = "finalize"
               THEN FinalizeRedeemClosure(ch, tk, c.id, c.hash,
                                          [expires |-> minted[c.hash]], c.t, "none")
               ELSE ValidateClosure(ch, tk, c.hash, c.keep, c.t, "none")
        st == Transaction(ch, tk, res)
    IN  /\ res.err = c.err
        /\ st.ch = ch
        /\ st.tk = tk

\* C19: the sweep never races a transaction.  However the list and delete
\* steps of alarm() interleave with storeChallenge, finalizeRedeem and
\* validateAndConsumeToken calls, when alarm() returns the store is the one
\* of a serial run: the calls placed before the tick, then the whole tick
\* at once (the sweep, or a part of it when a storage fault cut it short),
\* then the calls placed after it, and each call ends in the serial run as it
\* did in the interleaved one.
SweepIsSerializable ==
    [][ (gc.pc # "idle" /\ gc'.pc = "idle")
        => /\ [ch |-> challenges', tk |-> tokens']
                \in IF gc.pc = "tokens" /\ gc.todo = {}
                    THEN {Sweep(gc.ch, gc.tk, gc.t)}
                    ELSE PartialSweeps(gc.ch, gc.tk, gc.t)
           /\ \A c \in gc.late : RunsLate(c, challenges', tokens')
      ]_vars

\* C19 witness: alarm() has deleted an expired challenge and is not yet
\* over, and a finalizeRedeem for that challenge that came in after the
\* delete has found nothing, where the store without the tick has it expired.
SweepIsSerializableWitness ==
    /\ gc.pc # "idle"
    /\ \E c \in gc.late :
        /\ c.op = "finalize"
        /\ c.err = ERR_NOT_FOUND
        /\ Has(gc.ch, c.id)
        /\ ~Has(challenges, c.id)

\* C21 as claimed: every redeem response carrying success:true corresponds to
\* a committed finalizeRedeem, whatever the verifier returned: the request
\* went through finalizeRedeem, the challenge record is deleted and the
\* record of the returned token was stored.
SuccessMeansCommitted ==
    (last.op = "redeem" /\ last.success = "true")
        => /\ last.hash # << >>
           /\ last.hash \in Redeemed(last.id)
           /\ ~Has(challenges, last.id)
           /\ Has(tokens, last.hash)

\* The verifier has returned success without a token or without an expiry,
\* and the request is answered success:true with its challenge still stored.
IncompleteResultReached ==
    /\ last.op = "redeem"
    /\ last.success = "true"
    /\ last.hash = << >>
    /\ Has(challenges, last.id)
    /\ Redeemed(last.id) = {}

\* The records of `m` and `n` under every key but `k` are the same.
SameBut(m, n, k) ==
    /\ (DOMAIN m) \ {k} = (DOMAIN n) \ {k}
    /\ \A x \in (DOMAIN m) \ {k} : m[x] = n[x]

\* C22: per-key frame.  A finalizeRedeem(id, tokenHash, ...) call, committed
\* or failed, leaves every challenge record but the one under id and every
\* token record but the one under tokenHash as they were; a
\* validateAndConsumeToken(tokenHash, ...) call leaves every challenge record
\* and every token record but the one under tokenHash as they were; and
\* neither touches the pending alarm.
PerKeyFrame ==
    [][ /\ last'.op = "redeem"
            => /\ SameBut(challenges, challenges', last'.id)
               /\ SameBut(tokens, tokens', last'.hash)
        /\ last'.op = "validate"
            => /\ challenges' = challenges
               /\ SameBut(tokens, tokens', last'.hash)
        /\ alarmAt' = alarmAt
      ]_vars

\* C22 witness: a finalizeRedeem has committed on a store that holds another
\* challenge, past its expiry, and another token.
PerKeyFrameWitness ==
    /\ last.op = "redeem"
    /\ last.success = "true"
    /\ Has(tokens, last.hash)
    /\ \E id \in DOMAIN challenges : id # last.id /\ challenges[id].expires < now
    /\ \E h \in DOMAIN tokens : h # last.hash

\* A consuming validate has succeeded on a store that holds another token.
PerKeyFrameValidateReached ==
    /\ last.op = "validate"
    /\ ~last.keep
    /\ last.success = "true"
    /\ ~Has(tokens, last.hash)
    /\ tokens # EmptyMap
    /\ challenges # EmptyMap

====
